---- MODULE Spec2Model ----
(***************************************************************************)
(* A model of tinynn/converter/operators/torch/base.py: the transform      *)
(* library of OperatorConverter (unique names, dequantize/quantize wrap,   *)
(* padding insertion, passthrough, qnnpack weight rescale, scalar          *)
(* quantization) and the helper get_pool_ceil_padding.                     *)
(*                                                                         *)
(* The module holds one set of variables and one specification per         *)
(* operation family; a specification leaves the variables of the other     *)
(* families at their idle values.                                          *)
(***************************************************************************)
EXTENDS Integers, Sequences, FiniteSets, TLC

VARIABLES
    pc,             \* position of the call being modelled
    input_scale,    \* input_tensor.quantization.scale
    weight_scale,   \* weight_tensor.quantization.scale
    output_scale,   \* output_tensor.quantization.scale
    orig_scale,     \* local orig_scale of rescale_weight_scale_for_qnnpack
    updated,        \* local updated of rescale_weight_scale_for_qnnpack
    iters,          \* history: how many times line 215 has run in this call
    call,           \* the arguments of the call being modelled, as passed
    ret,            \* what the call returned (or that it raised)
    convs,          \* the OperatorConverter instances, by creation order
    tensors,        \* every tfl.Tensor object created so far; index = identity
    ops,            \* the list `ops` handed to a transform (objects mutated in place)
    ops0,           \* history: `ops` as it was when the call was made
    graph_ops,      \* graph_converter's operators, in add_operator order
    generated       \* history: names returned by get_unique_*_name, with the instance

vars == <<pc, input_scale, weight_scale, output_scale, orig_scale, updated, iters,
          call, ret, convs, tensors, ops, ops0, graph_ops, generated>>

rescaleVars == <<input_scale, weight_scale, output_scale, orig_scale, updated, iters>>
convVars == <<convs, tensors, ops, ops0, graph_ops, generated>>

Max(a, b) == IF a >= b THEN a ELSE b
Min(a, b) == IF a <= b THEN a ELSE b

(***************************************************************************)
(* Floating point.  Python floats are IEEE-754 binary64 and np.float32 is  *)
(* binary32.  The exponent fields keep their widths and biases (11 bits,   *)
(* bias 1023; 8 bits, bias 127); the significands are shortened to         *)
(* DblPrec and FltFrac+1 bits so that every intermediate fits TLC's        *)
(* integers.  Rounding is to nearest, ties to even, with gradual underflow *)
(* and overflow to infinity, as in the formats.                            *)
(***************************************************************************)
DblPrec == 5     \* significand bits of the binary64 stand-in (53 in the format)
FltFrac == 3     \* fraction bits of the binary32 stand-in (23 in the format)

DblEMax == 1023  \* largest unbiased exponent of binary64
DblENorm == -1022 \* unbiased exponent of the smallest normal binary64
FltBias == 127   \* exponent bias of binary32
FltENorm == -126 \* unbiased exponent of the smallest normal binary32
FltExpInf == 255 \* exponent field of binary32 infinity and NaN

\* exponent of the last significand bit of a subnormal binary64
DblELsb == DblENorm - (DblPrec - 1)

\* Operators below bind their arguments as values (v \in {arg}) before using
\* them more than once, so that an argument is computed once per call.

\* the number of bits of m: the least n with m < 2^n
BitLen(m) == CHOOSE n \in 0..(3 * DblPrec + 2) : m < 2^n /\ (n = 0 \/ m >= 2^(n - 1))

\* m / 2^s rounded to nearest, ties to even (s >= 1)
RoundShift(m, s) ==
    IF s > BitLen(m) THEN 0
    ELSE LET q == m \div (2^s)
             r == m % (2^s)
             half == 2^(s - 1)
         IN  IF r > half \/ (r = half /\ q % 2 = 1) THEN q + 1 ELSE q

DblZero == [kind |-> "zero", m |-> 0, e |-> 0]
DblInf == [kind |-> "inf", m |-> 0, e |-> 0]
DblNaN == [kind |-> "nan", m |-> 0, e |-> 0]

\* the binary64 with significand q (at most 2^DblPrec) and last-bit exponent e1
DblPack(q, e1) ==
    LET carry == q = 2^DblPrec
        m2 == IF carry THEN 2^(DblPrec - 1) ELSE q
        e2 == IF carry THEN e1 + 1 ELSE e1
    IN  IF q = 0 THEN DblZero
        ELSE IF e2 + DblPrec - 1 > DblEMax THEN DblInf
        ELSE [kind |-> "fin", m |-> m2, e |-> e2]

\* the binary64 nearest to the exact value m0 * 2^e0 (m0 >= 0)
DblRound(m0, e0) ==
    CHOOSE d \in
      { CHOOSE r \in
          { IF s > 0 THEN DblPack(RoundShift(m, s), e + s)
            ELSE DblPack(m * 2^Min(DblPrec - L, e - DblELsb),
                         e - Min(DblPrec - L, e - DblELsb))
            : s \in {Max(L - DblPrec, DblELsb - e)} } : TRUE
        : m \in {m0}, e \in {e0}, L \in {BitLen(m0)} } : TRUE

\* a * b on Python floats
DblMul(a0, b0) ==
    CHOOSE d \in
      { IF a.kind = "nan" \/ b.kind = "nan" THEN DblNaN
        ELSE IF a.kind = "inf" \/ b.kind = "inf"
             THEN IF a.kind = "zero" \/ b.kind = "zero" THEN DblNaN ELSE DblInf
        ELSE IF a.kind = "zero" \/ b.kind = "zero" THEN DblZero
        ELSE DblRound(a.m * b.m, a.e + b.e)
        : a \in {a0}, b \in {b0} } : TRUE

\* a / b on Python floats, b finite and nonzero (a quantization scale)
DblDiv(a0, b0) ==
    CHOOSE d \in
      { IF a.kind \in {"nan", "inf", "zero"} THEN a
        ELSE LET K == 2 * DblPrec
                 n == a.m * 2^K
                 q == n \div b.m
                 sticky == IF n % b.m = 0 THEN 0 ELSE 1
             IN  DblRound(2 * q + sticky, a.e - b.e - K - 1)
        : a \in {a0}, b \in {b0} } : TRUE

\* the int 10 of `scale *= 10`, as a float
DblTen == [kind |-> "fin", m |-> 5 * 2^(DblPrec - 3), e |-> 4 - DblPrec]

\* np.float32(val) viewed as uint32: sign 0, exponent field, fraction
Fp32Pack(normal, E, sig) ==
    LET carry == normal /\ sig = 2^(FltFrac + 1)
        E2 == IF carry THEN E + 1 ELSE E
        sig2 == IF carry THEN 2^FltFrac ELSE sig
    IN  IF ~normal THEN sig
        ELSE IF E2 + FltBias >= FltExpInf THEN FltExpInf * 2^FltFrac
        ELSE (E2 + FltBias) * 2^FltFrac + (sig2 - 2^FltFrac)

fp32_to_bits(val0) ==
    CHOOSE bits \in
      { IF val.kind = "zero" THEN 0
        ELSE IF val.kind = "inf" THEN FltExpInf * 2^FltFrac
        ELSE IF val.kind = "nan" THEN FltExpInf * 2^FltFrac + 2^(FltFrac - 1)
        ELSE CHOOSE r \in
               { Fp32Pack(E >= FltENorm, E,
                          IF s > 0 THEN RoundShift(val.m, s) ELSE val.m * 2^(-s))
                 : s \in {(IF E >= FltENorm THEN E - FltFrac ELSE FltENorm - FltFrac)
                          - val.e} } : TRUE
        : val \in {val0}, E \in {val0.e + BitLen(val0.m) - 1} } : TRUE

(***************************************************************************)
(* rescale_weight_scale_for_qnnpack (lines 206-220)                        *)
(***************************************************************************)
ShiftBase == 126 \* 127 + 31 - 32 of line 212

\* line 210-212: the shift the current scales give
ShiftOf(in, w, out) ==
    LET input_product_scale == DblMul(in, w)
        scale == DblDiv(input_product_scale, out)
    IN  ShiftBase - (fp32_to_bits(scale) \div 2^FltFrac)

\* the history counter iters stops counting here; a call on binary64 scales
\* multiplies fewer than (1074 + 1024) / log2(10) < 640 times
IterCap == 700

NeedsRescaleStrict(shift) == shift > 32
\* line 213: the loop's test
NeedsRescale(shift) == shift >= 32

TimesTenth(w) == DblDiv(w, DblTen)
\* line 215: weight_tensor.quantization.scale *= 10
TimesTen(w) == DblMul(w, DblTen)

\* a scale n/16 * 2^E, 16 <= n < 32
Scale(n, E) == DblRound(n, E - 4)

\* scales of ordinary magnitude
InputScales == {Scale(16, -30), Scale(27, -8), Scale(16, -1)}
WeightScales == {Scale(n, E) : n \in {16, 21, 31}, E \in {-40, -33, -12, 2}}
OutputScales == {Scale(n, E) : n \in {16, 29}, E \in {-1, 3}}

\* scales at the edges of the binary64 range: <<input, weight, output>>
ExtremeScales ==
    { <<DblRound(1, DblELsb), Scale(16, -10), Scale(16, 0)>>,
      <<Scale(16, -600), Scale(16, -600), Scale(16, 600)>>,
      <<Scale(16, 1000), Scale(16, 20), Scale(16, -10)>>,
      <<Scale(31, DblEMax), Scale(16, DblENorm), Scale(31, DblEMax)>>,
      <<Scale(16, -34), Scale(16, 0), Scale(16, 0)>>,
      <<Scale(16, -600), Scale(31, DblEMax), Scale(16, 500)>> }

NoCall == [op |-> "none"]
NoRet == [kind |-> "none"]

ConvIdle ==
    /\ convs = <<>>
    /\ tensors = <<>>
    /\ ops = <<>>
    /\ ops0 = <<>>
    /\ graph_ops = <<>>
    /\ generated = {}

RescaleIdle ==
    /\ input_scale = DblZero
    /\ weight_scale = DblZero
    /\ output_scale = DblZero
    /\ orig_scale = DblZero
    /\ updated = FALSE
    /\ iters = 0

RescaleInit ==
    /\ pc = "rescale_entry"
    /\ \E t \in ExtremeScales \cup (InputScales \X WeightScales \X OutputScales) :
          /\ input_scale = t[1]
          /\ weight_scale = t[2]
          /\ output_scale = t[3]
          /\ call = [op |-> "rescale_weight_scale_for_qnnpack",
                     input |-> t[1], weight |-> t[2], output |-> t[3]]
    /\ orig_scale = DblZero
    /\ updated = FALSE
    /\ iters = 0
    /\ ret = NoRet
    /\ ConvIdle

\* lines 207-208
RescaleEnter ==
    /\ pc = "rescale_entry"
    /\ updated' = FALSE
    /\ orig_scale' = weight_scale
    /\ pc' = "rescale_loop"
    /\ UNCHANGED <<input_scale, weight_scale, output_scale, iters, call, ret>>
    /\ UNCHANGED convVars

\* lines 209-215: one pass of the loop that takes the `if` branch
RescaleMultiply ==
    /\ pc = "rescale_loop"
    /\ NeedsRescale(ShiftOf(input_scale, weight_scale, output_scale))
    /\ updated' = TRUE
    /\ weight_scale' = TimesTen(weight_scale)
    /\ iters' = IF iters < IterCap THEN iters + 1 ELSE iters
    /\ UNCHANGED <<pc, input_scale, output_scale, orig_scale, call, ret>>
    /\ UNCHANGED convVars

\* lines 209-212, 216-220: the pass that breaks; the function returns None
RescaleBreak ==
    /\ pc = "rescale_loop"
    /\ ~NeedsRescale(ShiftOf(input_scale, weight_scale, output_scale))
    /\ pc' = "rescale_done"
    /\ ret' = [kind |-> "returned"]
    /\ UNCHANGED <<input_scale, weight_scale, output_scale, orig_scale, updated, iters, call>>
    /\ UNCHANGED convVars

RescaleNext == RescaleEnter \/ RescaleMultiply \/ RescaleBreak

RescaleSpec == RescaleInit /\ [][RescaleNext]_vars

\* the interpreter runs the loop body whenever the loop has not been left
RescaleLive == RescaleSpec /\ WF_vars(RescaleNext)

RECURSIVE IterTimesTen(_, _)
\* x * 10 * 10 * ... * 10 (n times), in floats
IterTimesTen(x, n) ==
    IF n = 0 THEN x
    ELSE IF n = 1 THEN TimesTen(x)
    ELSE LET half == {IterTimesTen(x, n \div 2)}
         IN  CHOOSE r \in {IterTimesTen(y, n - n \div 2) : y \in half} : TRUE

\* C1: rescale_weight_scale_for_qnnpack terminates: from every positive
\* input, weight and output scale the loop of lines 209-217 is eventually left.
C1_Terminates == <>(pc = "rescale_done")

C1_Witness == pc = "rescale_done" /\ iters >= 3

\* C2: when rescale_weight_scale_for_qnnpack returns, the shift of the final
\* scales is below 32; the weight scale is the original one multiplied by 10
\* k times, k the smallest count that brings the shift below 32 (every
\* smaller count leaves the shift at 32 or more; k = 0 leaves the scale
\* untouched); the input and output scales are the ones passed in.
C2_Rescaled ==
    pc \in {"rescale_loop", "rescale_done"} =>
        /\ input_scale = call.input
        /\ output_scale = call.output
        /\ orig_scale = call.weight
        /\ weight_scale = IterTimesTen(orig_scale, iters)
        /\ iters > 0 =>
              ShiftOf(input_scale, IterTimesTen(orig_scale, iters - 1), output_scale) >= 32
        /\ updated = (iters > 0)
        /\ pc = "rescale_done" =>
              ShiftOf(input_scale, weight_scale, output_scale) < 32

C2_Witness ==
    /\ pc = "rescale_done"
    /\ iters >= 2
    /\ weight_scale.kind = "fin"
    /\ ShiftOf(input_scale, orig_scale, output_scale) >= 32

(***************************************************************************)
(* get_pool_ceil_padding (lines 433-456)                                   *)
(***************************************************************************)
MaxSize == 6    \* largest spatial size drawn
MaxKernel == 3  \* largest kernel size drawn
MaxStride == 3  \* largest stride drawn
MaxPad == 1     \* largest base padding drawn

FloorDiv(a, b) == a \div b
\* line 438: int(math.ceil(a / float(b))), b > 0
CeilDiv(a, b) == -((-a) \div b)

\* line 438
CeiledOutputDim(s, k, t, p) == CeilDiv(s + 2 * p - k, t) + 1

\* lines 441-444: ensure last pooling starts inside
LastStartsInside(d, s, t, p) == IF (d - 1) * t >= s + p THEN d - 1 ELSE d

\* lines 445-449
PaddingCeil(d, s, k, t, p) ==
    IF t = 1 THEN 0 ELSE k - (s + 2 * p - ((d - 1) * t + 1))

\* lines 451-455: ensure padding is not > kernel_size
NotAboveKernel(c, k, p) ==
    IF c + 2 * p >= k THEN (IF c < k - 1 THEN c ELSE k - 1) ELSE c

\* line 437: dim = sizes[-len(padding):]
LastDims(sizes, n) == SubSeq(sizes, Len(sizes) - n + 1, Len(sizes))

get_pool_ceil_padding(sizes, kernel_size, stride, padding) ==
    LET dim == LastDims(sizes, Len(padding))
    IN  [i \in 1..Len(padding) |->
            NotAboveKernel(
                PaddingCeil(
                    LastStartsInside(
                        CeiledOutputDim(dim[i], kernel_size[i], stride[i], padding[i]),
                        dim[i], stride[i], padding[i]),
                    dim[i], kernel_size[i], stride[i], padding[i]),
                kernel_size[i], padding[i])]

\* <<size, kernel, stride, padding>> of the width dimension
WidthCases == { <<5, 3, 2, 0>>, <<4, 2, 1, 0>>, <<10, 3, 3, 1>>, <<6, 3, 2, 1>> }

PoolInit ==
    /\ pc = "pool_entry"
    /\ \E h \in 1..MaxSize, kh \in 1..MaxKernel, sh \in 1..MaxStride,
          ph \in 0..MaxPad, w \in WidthCases :
          call = [op |-> "get_pool_ceil_padding",
                  sizes |-> <<1, 1, h, w[1]>>,
                  kernel_size |-> <<kh, w[2]>>,
                  stride |-> <<sh, w[3]>>,
                  padding |-> <<ph, w[4]>>]
    /\ ret = NoRet
    /\ RescaleIdle
    /\ ConvIdle

PoolCall ==
    /\ pc = "pool_entry"
    /\ ret' = [kind |-> "returned",
               value |-> get_pool_ceil_padding(call.sizes, call.kernel_size,
                                               call.stride, call.padding)]
    /\ pc' = "pool_done"
    /\ UNCHANGED <<call>>
    /\ UNCHANGED rescaleVars
    /\ UNCHANGED convVars

PoolNext == PoolCall

PoolSpec == PoolInit /\ [][PoolNext]_vars

\* the ceil-padding algorithm as the specification words it, with the
\* quotient rounded by Round(a, b)
ClaimedExtra(Round(_, _), s, k, t, p) ==
    LET out0 == Round(s + 2 * p - k, t) + 1
        out == IF (out0 - 1) * t >= s + p THEN out0 - 1 ELSE out0
        extra == IF t = 1 THEN 0 ELSE k - (s + 2 * p - ((out - 1) * t + 1))
    IN  IF extra + 2 * p >= k THEN Min(extra, k - 1) ELSE extra

RoundDown(a, b) == a \div b
RoundUp(a, b) == (a + b - 1) \div b

PoolAgrees(Round(_, _)) ==
    pc = "pool_done" =>
        /\ Len(ret.value) = 2
        /\ \A i \in 1..2 :
              ret.value[i] = ClaimedExtra(Round, call.sizes[i + 2], call.kernel_size[i],
                                          call.stride[i], call.padding[i])
        /\ (call.sizes[4] = 5 /\ call.kernel_size[2] = 3 /\ call.stride[2] = 2
              /\ call.padding[2] = 0) => ret.value[2] = 1
        /\ (call.sizes[4] = 4 /\ call.kernel_size[2] = 2 /\ call.stride[2] = 1
              /\ call.padding[2] = 0) => ret.value[2] = 0

\* C4 as stated: get_pool_ceil_padding returns, per dimension, the extra pad
\* of the algorithm with out = floor((s + 2p - k)/t) + 1.
C4_FloorFormula == PoolAgrees(RoundDown)

\* C4 as amended: get_pool_ceil_padding returns, per dimension, the extra pad
\* of the algorithm with out = ceil((s + 2p - k)/t) + 1, decremented when
\* (out-1)*t >= s+p; extra = 0 for t = 1, else k - (s + 2p - ((out-1)*t + 1)),
\* lowered to k-1 when extra + 2p >= k; s=5,k=3,t=2,p=0 gives 1 and
\* s=4,k=2,t=1,p=0 gives 0.
C4_CeilFormula == PoolAgrees(RoundUp)

C4_Witness ==
    /\ pc = "pool_done"
    /\ call.sizes[3] = 6 /\ call.kernel_size[1] = 3 /\ call.stride[1] = 2
    /\ call.padding[1] = 0
    /\ ret.value = <<2, 1>>

(***************************************************************************)
(* quantize_scalar_tensor (lines 373-390)                                  *)
(***************************************************************************)
MaxScalar == 12    \* scalar values, counted in hundredths, are drawn from -MaxScalar..MaxScalar
QMax == 127        \* the divisor of lines 383-390

\* the operands of line 375: the class torch.dtype and its instance torch.float32
TorchDtype == "torch.dtype"
TorchFloat32 == "torch.float32"

\* torch.quantize_per_tensor(tensor, scale, zero_point, dtype): the parameters
\* of the result; scale is the ratio num/den
QuantizePerTensor(num, den, zero_point, dtype) ==
    [kind |-> "returned", scale |-> [num |-> num, den |-> den],
     zero_point |-> zero_point, dtype |-> dtype]

\* lines 376-390; value is in hundredths, so value/127 is value / (127 * 100)
QuantizeBySign(value, asymmetric) ==
    IF value = 0
    THEN IF asymmetric THEN QuantizePerTensor(1, 2, 128, "quint8")
         ELSE QuantizePerTensor(1, 2, 0, "qint8")
    ELSE IF value < 0
    THEN IF asymmetric THEN QuantizePerTensor(-value, QMax * 100, 255, "quint8")
         ELSE QuantizePerTensor(-value, QMax * 100, 0, "qint8")
    ELSE IF asymmetric THEN QuantizePerTensor(value, QMax * 100, 0, "quint8")
         ELSE QuantizePerTensor(value, QMax * 100, 0, "qint8")

Raised(error) == [kind |-> "raised", error |-> error]

\* lines 373-390
quantize_scalar_tensor(numel, value, asymmetric) ==
    IF numel # 1 THEN Raised("AssertionError")
    ELSE IF TorchDtype # TorchFloat32 THEN Raised("AssertionError")
    ELSE QuantizeBySign(value, asymmetric)

ScalarValues == (-MaxScalar..MaxScalar) \cup {-254, 500}

NewConv(output_names, asymmetric) ==
    [output_names |-> output_names, attr_count |-> 0, transform_count |-> 0,
     asymmetric |-> asymmetric]

QuantInit ==
    /\ pc = "quant_entry"
    /\ \E v \in ScalarValues, n \in {1, 2} :
          call = [op |-> "quantize_scalar_tensor", numel |-> n, value |-> v]
    /\ \E a \in BOOLEAN : convs = <<NewConv(<<"x">>, a)>>
    /\ ret = NoRet
    /\ RescaleIdle
    /\ tensors = <<>>
    /\ ops = <<>>
    /\ ops0 = <<>>
    /\ graph_ops = <<>>
    /\ generated = {}

QuantCall ==
    /\ pc = "quant_entry"
    /\ ret' = quantize_scalar_tensor(call.numel, call.value, convs[1].asymmetric)
    /\ pc' = "quant_done"
    /\ UNCHANGED <<call>>
    /\ UNCHANGED rescaleVars
    /\ UNCHANGED convVars

QuantNext == QuantCall

QuantSpec == QuantInit /\ [][QuantNext]_vars

\* C5: quantize_scalar_tensor on a one-element float tensor returns the
\* parameters chosen by sign: 0 gives scale 0.5 and zero_point 128 (unsigned-8)
\* or 0 (signed-8); a negative value gives scale -value/127 and zero_point 255
\* or 0; a positive value gives scale value/127 and zero_point 0.
C5_BySign ==
    (pc = "quant_done" /\ call.numel = 1) =>
        /\ ret.kind = "returned"
        /\ ret.dtype = (IF convs[1].asymmetric THEN "quint8" ELSE "qint8")
        /\ call.value = 0 =>
              /\ ret.scale.num * 2 = ret.scale.den
              /\ ret.zero_point = (IF convs[1].asymmetric THEN 128 ELSE 0)
        /\ call.value < 0 =>
              /\ ret.scale.num * 127 * 100 = -call.value * ret.scale.den
              /\ ret.zero_point = (IF convs[1].asymmetric THEN 255 ELSE 0)
        /\ call.value > 0 =>
              /\ ret.scale.num * 127 * 100 = call.value * ret.scale.den
              /\ ret.zero_point = 0

(***************************************************************************)
(* Unique names and auxiliary tensors (lines 172-196)                      *)
(***************************************************************************)
MaxConvs == 2   \* converter instances created in one run
MaxCount == 2   \* calls of one name generator on one instance

\* lines 173-176: the name get_unique_attr_name returns for converter c
AttrName(c) ==
    IF c.attr_count = 0 THEN c.output_names[1] \o "_attr"
    ELSE c.output_names[1] \o "_attr_" \o ToString(c.attr_count)

\* lines 181-184: the name get_unique_transform_name returns for converter c
TransformName(c) ==
    IF c.transform_count = 0 THEN c.output_names[1] \o "_transform"
    ELSE c.output_names[1] \o "_transform_" \o ToString(c.transform_count)

\* The state a transform works on, as one value: the converters, the tensor
\* objects, the op list, the graph builder's operators and the name history.
Here == [convs |-> convs, tensors |-> tensors, ops |-> ops,
         graph_ops |-> graph_ops, generated |-> generated]

\* lines 172-178, on converter number self
get_unique_attr_name(st, self) ==
    [st EXCEPT !.convs[self].attr_count = @ + 1,
               !.generated = @ \cup {[conv |-> self, role |-> "attr",
                                      call |-> st.convs[self].attr_count,
                                      name |-> AttrName(st.convs[self])]}]

\* lines 180-186, on converter number self
get_unique_transform_name(st, self) ==
    [st EXCEPT !.convs[self].transform_count = @ + 1,
               !.generated = @ \cup {[conv |-> self, role |-> "transform",
                                      call |-> st.convs[self].transform_count,
                                      name |-> TransformName(st.convs[self])]}]

\* a tfl.Tensor object as base.py constructs it
Tensor(name, has_buffer, dtype, quantized, shape, value) ==
    [name |-> name, has_buffer |-> has_buffer, dtype |-> dtype,
     quantized |-> quantized, shape |-> shape, value |-> value]

NoValue == [repr |-> "none"]

\* lines 188-191 with name=None; the new tensor is the last of .tensors
create_transform_tensor(st, self, dtype, quantized, shape) ==
    LET named == get_unique_transform_name(st, self)
    IN  [named EXCEPT !.tensors =
            Append(@, Tensor(TransformName(st.convs[self]), FALSE, dtype, quantized,
                             shape, NoValue))]

\* lines 193-196 with name=None; the new tensor is the last of .tensors
create_attr_tensor(st, self, dtype, quantized, shape, value) ==
    LET named == get_unique_attr_name(st, self)
    IN  [named EXCEPT !.tensors =
            Append(@, Tensor(AttrName(st.convs[self]), TRUE, dtype, quantized,
                             shape, value))]

\* debug names of node outputs
NodeNames == {"x", "y", "x_attr", "x_transform_1"}

UsedNames == UNION {{convs[i].output_names[j] : j \in 1..Len(convs[i].output_names)}
                    : i \in 1..Len(convs)}

NameInit ==
    /\ pc = "names"
    /\ convs = <<>>
    /\ generated = {}
    /\ tensors = <<>>
    /\ ops = <<>>
    /\ ops0 = <<>>
    /\ graph_ops = <<>>
    /\ call = NoCall
    /\ ret = NoRet
    /\ RescaleIdle

\* lines 20-29: a converter for a node whose output names are new in the graph
NewConverter ==
    /\ pc = "names"
    /\ Len(convs) < MaxConvs
    /\ \E a \in NodeNames \ UsedNames, b \in (NodeNames \ UsedNames) \cup {"none"},
          asym \in BOOLEAN :
          /\ a # b
          /\ convs' = Append(convs, NewConv(IF b = "none" THEN <<a>> ELSE <<a, b>>, asym))
    /\ UNCHANGED <<pc, call, ret, tensors, ops, ops0, graph_ops, generated>>
    /\ UNCHANGED rescaleVars

CallGetUniqueAttrName ==
    /\ pc = "names"
    /\ \E self \in 1..Len(convs) :
          /\ convs[self].attr_count < MaxCount
          /\ convs' = get_unique_attr_name(Here, self).convs
          /\ generated' = get_unique_attr_name(Here, self).generated
          /\ ret' = [kind |-> "returned", value |-> AttrName(convs[self])]
    /\ UNCHANGED <<pc, call, tensors, ops, ops0, graph_ops>>
    /\ UNCHANGED rescaleVars

CallGetUniqueTransformName ==
    /\ pc = "names"
    /\ \E self \in 1..Len(convs) :
          /\ convs[self].transform_count < MaxCount
          /\ convs' = get_unique_transform_name(Here, self).convs
          /\ generated' = get_unique_transform_name(Here, self).generated
          /\ ret' = [kind |-> "returned", value |-> TransformName(convs[self])]
    /\ UNCHANGED <<pc, call, tensors, ops, ops0, graph_ops>>
    /\ UNCHANGED rescaleVars

NameNext == NewConverter \/ CallGetUniqueAttrName \/ CallGetUniqueTransformName

NameSpec == NameInit /\ [][NameNext]_vars

\* C8: all tensor names are unique: over converter instances of nodes with
\* pairwise distinct output names, no two generated auxiliary names are equal,
\* within one instance or across instances, and no generated name equals the
\* output name of any node.
C8_NamesUnique ==
    /\ \A g, h \in generated : g # h => g.name # h.name
    /\ \A g \in generated : g.name \notin UsedNames

(***************************************************************************)
(* wrap_ops_with_dequant_quants (lines 263-276)                            *)
(***************************************************************************)
MaxOps == 2      \* ops in the list handed to the wrap
MaxArity == 2    \* inputs, and outputs, of one op
NumTensors == 2  \* boundary tensors of the graph the ops are wired to

\* seq[i] as Python indexes it: from 0, negative i from the end
PyIndex(seq, i) == IF i < 0 THEN Len(seq) + i + 1 ELSE i + 1

\* a tfl operator object; id is its identity
Op(id, kind, inputs, outputs, attrs) ==
    [id |-> id, kind |-> kind, inputs |-> inputs, outputs |-> outputs, attrs |-> attrs]

NoAttrs == [none |-> TRUE]

RewireFirstOutput(list, output_idx, t) ==
    [list EXCEPT ![1].outputs[PyIndex(list[1].outputs, output_idx)] = t]
\* line 273: ops[0].inputs[input_idx] = new_input
RewireInput(list, input_idx, t) ==
    [list EXCEPT ![1].inputs[PyIndex(list[1].inputs, input_idx)] = t]
\* line 274: ops[-1].outputs[output_idx] = new_output
RewireOutput(list, output_idx, t) ==
    [list EXCEPT ![Len(list)].outputs[PyIndex(list[Len(list)].outputs, output_idx)] = t]

NextOpId(st) == Len(st.ops) + Len(st.graph_ops) + 1

\* lines 263-276: the state after the call, and .result the list returned
wrap_ops_with_dequant_quants(st, self, input_idx, output_idx) ==
    LET orig_input == st.ops[1].inputs[PyIndex(st.ops[1].inputs, input_idx)]
        orig_output == st.ops[Len(st.ops)].outputs[
                           PyIndex(st.ops[Len(st.ops)].outputs, output_idx)]
        st1 == create_transform_tensor(st, self, "float32", FALSE,
                                       st.tensors[orig_input].shape)
        new_input == Len(st1.tensors)
        st2 == create_transform_tensor(st1, self, "float32", FALSE,
                                       st.tensors[orig_output].shape)
        new_output == Len(st2.tensors)
        dequant_op == Op(NextOpId(st), "Dequantize", <<orig_input>>, <<new_input>>, NoAttrs)
        quant_op == Op(NextOpId(st) + 1, "Quantize", <<new_output>>, <<orig_output>>, NoAttrs)
        rewired == RewireOutput(RewireInput(st2.ops, input_idx, new_input),
                                output_idx, new_output)
    IN  [convs |-> st2.convs, tensors |-> st2.tensors, ops |-> rewired,
         graph_ops |-> st2.graph_ops, generated |-> st2.generated,
         result |-> <<dequant_op>> \o rewired \o <<quant_op>>]

\* the quantized tensors of the graph before the wrap: NumTensors boundary
\* tensors, then the tensors linking one op of the list to the next
GraphTensors(dtype) ==
    [i \in 1..(NumTensors + MaxOps - 1) |->
        Tensor("t" \o ToString(i), FALSE, dtype, TRUE, <<1, 2>>, NoValue)]

Wirings == UNION {[1..n -> 1..NumTensors] : n \in 1..MaxArity}

\* n ops in a chain: the first reads ins, the last writes outs
Chain(n, ins, outs) ==
    [i \in 1..n |->
        Op(i, "Float",
           IF i = 1 THEN ins ELSE <<NumTensors + i - 1>>,
           IF i = n THEN outs ELSE <<NumTensors + i>>,
           NoAttrs)]

WrapInit ==
    /\ pc = "wrap_entry"
    /\ \E n \in 1..MaxOps, asym \in BOOLEAN, count \in 0..1 :
          /\ convs = <<[NewConv(<<"x">>, asym) EXCEPT !.transform_count = count]>>
          /\ tensors = GraphTensors(IF asym THEN "uint8" ELSE "int8")
          /\ \E ins \in Wirings, outs \in Wirings : ops = Chain(n, ins, outs)
    /\ ops0 = ops
    /\ \E ii \in -1..(MaxArity - 1), oi \in -1..(MaxArity - 1) :
          /\ ii < Len(ops[1].inputs)
          /\ oi < Len(ops[Len(ops)].outputs)
          /\ call = [op |-> "wrap_ops_with_dequant_quants", input_idx |-> ii,
                     output_idx |-> oi, ntensors |-> Len(tensors)]
    /\ graph_ops = <<>>
    /\ generated = {}
    /\ ret = NoRet
    /\ RescaleIdle

WrapCall ==
    /\ pc = "wrap_entry"
    /\ LET after == wrap_ops_with_dequant_quants(Here, 1, call.input_idx, call.output_idx)
       IN  /\ convs' = after.convs
           /\ tensors' = after.tensors
           /\ ops' = after.ops
           /\ generated' = after.generated
           /\ ret' = [kind |-> "returned", value |-> after.result]
    /\ pc' = "wrap_done"
    /\ UNCHANGED <<call, ops0, graph_ops>>
    /\ UNCHANGED rescaleVars

WrapNext == WrapCall

WrapSpec == WrapInit /\ [][WrapNext]_vars

\* C3: wrap_ops_with_dequant_quants returns len(ops)+2 ops: first a Dequantize
\* reading the original ops[0].inputs[input_idx], last a Quantize writing the
\* original ops[-1].outputs[output_idx], between them the given ops in their
\* order; ops[0].inputs[input_idx] and ops[-1].outputs[output_idx] now are two
\* newly created transform tensors, distinct from each other and from the
\* original boundary tensors, the Dequantize's output and the Quantize's input.
C3_Wrapped ==
    pc = "wrap_done" =>
        LET n == Len(ops0)
            r == ret.value
            ii == PyIndex(ops0[1].inputs, call.input_idx)
            oi == PyIndex(ops0[n].outputs, call.output_idx)
            orig_input == ops0[1].inputs[ii]
            orig_output == ops0[n].outputs[oi]
            new_input == r[2].inputs[ii]
            new_output == r[n + 1].outputs[oi]
        IN  /\ Len(r) = n + 2
            /\ r[1].kind = "Dequantize" /\ r[1].inputs = <<orig_input>>
            /\ r[n + 2].kind = "Quantize" /\ r[n + 2].outputs = <<orig_output>>
            /\ \A i \in 1..n : r[i + 1].id = ops0[i].id /\ r[i + 1].kind = ops0[i].kind
            /\ \A i \in 1..n : r[i + 1] = ops[i]
            /\ new_input > call.ntensors /\ new_output > call.ntensors
            /\ new_input <= Len(tensors) /\ new_output <= Len(tensors)
            /\ ~tensors[new_input].has_buffer /\ ~tensors[new_output].has_buffer
            /\ new_input # new_output
            /\ tensors[new_input].name # tensors[new_output].name
            /\ {new_input, new_output} \cap {orig_input, orig_output} = {}
            /\ r[1].outputs = <<new_input>>
            /\ r[n + 2].inputs = <<new_output>>

C3_Witness ==
    /\ pc = "wrap_done"
    /\ Len(ops0) = 2
    /\ call.input_idx = 1 /\ call.output_idx = -1
    /\ Len(ops0[1].inputs) = 2 /\ Len(ops0[2].outputs) = 2
    /\ ops0[1].inputs[2] = ops0[2].outputs[2]
    /\ Len(ret.value) = 4

(***************************************************************************)
(* handle_padding (lines 324-371)                                          *)
(***************************************************************************)
\* list.insert(i, x), 0 <= i <= len(list)
InsertAt(list, i, x) == SubSeq(list, 1, i) \o <<x>> \o SubSeq(list, i + 1, Len(list))

ArrayValue(a) == [repr |-> "array", a |-> a]
IntValue(n) == [repr |-> "int", n |-> n]
\* np.finfo(np.float32).min
FloatMin == [repr |-> "finfo_min", n |-> 0]

\* the shape np.pad(array, pad) gives
PaddedShape(shape, pad) == [i \in 1..Len(shape) |-> shape[i] + pad[i][1] + pad[i][2]]

\* line 334: some dimension's windows do not tile the padded input
UnderCovers(input_size, padding, kernel_size, stride) ==
    ~ \A i \in 1..2 : (input_size[i] + 2 * padding[i] - kernel_size[i]) % stride[i] = 0

\* line 338: list(np.add(ceil_pad, padding))
AddPadding(ceil_pad, padding) == [i \in 1..Len(ceil_pad) |-> ceil_pad[i] + padding[i]]

\* lines 327-338: the locals fill_nan and ceil_pad, or the failed assertion
CeilPlan(st, pad_h, pad_w, ceil_mode) ==
    IF ~ceil_mode THEN [raised |-> FALSE, fill_nan |-> FALSE, ceil_pad |-> <<0, 0>>]
    ELSE LET input_tensor == st.tensors[st.ops[1].inputs[1]]
             kernel_size == <<st.ops[2].attrs.filterHeight, st.ops[2].attrs.filterWidth>>
             stride == <<st.ops[2].attrs.strideH, st.ops[2].attrs.strideW>>
             padding == <<pad_h, pad_w>>
             input_size == <<input_tensor.shape[3], input_tensor.shape[4]>>
         IN  IF ~UnderCovers(input_size, padding, kernel_size, stride)
             THEN [raised |-> FALSE, fill_nan |-> FALSE, ceil_pad |-> <<0, 0>>]
             ELSE IF st.ops[2].kind # "MaxPool2d"
             THEN [raised |-> TRUE, fill_nan |-> FALSE, ceil_pad |-> <<0, 0>>]
             ELSE [raised |-> FALSE, fill_nan |-> TRUE,
                   ceil_pad |-> AddPadding(
                       get_pool_ceil_padding(input_tensor.shape, kernel_size,
                                             stride, padding),
                       padding)]

\* lines 341-350
ZeroPad(st, self, pad_h, pad_w, pad_op_index) ==
    LET pad == <<<<0, 0>>, <<pad_h, pad_h>>, <<pad_w, pad_w>>, <<0, 0>>>>
        st1 == create_attr_tensor(st, self, "int32", FALSE, <<4, 2>>, ArrayValue(pad))
        pad_tensor == Len(st1.tensors)
        pad_input == st.ops[PyIndex(st.ops, pad_op_index - 1)].outputs[1]
        st2 == create_transform_tensor(st1, self, st.tensors[pad_input].dtype,
                                       st.tensors[pad_input].quantized,
                                       PaddedShape(st.tensors[pad_input].shape, pad))
        pad_out == Len(st2.tensors)
        pad_op == Op(NextOpId(st), "Pad", <<pad_input, pad_tensor>>, <<pad_out>>, NoAttrs)
    IN  [st2 EXCEPT !.ops =
            InsertAt([st.ops EXCEPT ![PyIndex(st.ops, pad_op_index)].inputs[1] = pad_out],
                     pad_op_index, pad_op)]

FillNanIndexSame(pad_h, pad_w, pad_op_index) == pad_op_index
\* line 354
FillNanIndex(pad_h, pad_w, pad_op_index) ==
    IF pad_h + pad_w > 0 THEN pad_op_index + 1 ELSE pad_op_index

\* lines 358-363: constant_arr, for the tensor t that is padded
FillConstant(t) == IF t.quantized THEN IntValue(0) ELSE FloatMin

\* lines 353-371
FillPad(st, self, pad_h, pad_w, pad_op_index, ceil_pad) ==
    LET fill_nan_index == FillNanIndex(pad_h, pad_w, pad_op_index)
        pad == <<<<0, 0>>, <<0, ceil_pad[1]>>, <<0, ceil_pad[2]>>, <<0, 0>>>>
        st1 == create_attr_tensor(st, self, "int32", FALSE, <<4, 2>>, ArrayValue(pad))
        pad_tensor == Len(st1.tensors)
        pad_input == st.ops[PyIndex(st.ops, fill_nan_index - 1)].outputs[1]
        t == st.tensors[pad_input]
        st2 == create_attr_tensor(st1, self, IF t.quantized THEN t.dtype ELSE "float32",
                                  t.quantized, <<1>>, FillConstant(t))
        constant_tensor == Len(st2.tensors)
        st3 == create_transform_tensor(st2, self, t.dtype, t.quantized,
                                       PaddedShape(t.shape, pad))
        pad_out == Len(st3.tensors)
        pad_op == Op(NextOpId(st), "Padv2", <<pad_input, pad_tensor, constant_tensor>>,
                     <<pad_out>>, NoAttrs)
    IN  [st3 EXCEPT !.ops =
            InsertAt([st.ops EXCEPT ![PyIndex(st.ops, fill_nan_index)].inputs[1] = pad_out],
                     fill_nan_index, pad_op)]

\* lines 324-371: the state after the call and whether it raised
handle_padding(st, self, pad_h, pad_w, pad_op_index, ceil_mode) ==
    LET plan == CeilPlan(st, pad_h, pad_w, ceil_mode)
        st1 == IF pad_h + pad_w > 0 THEN ZeroPad(st, self, pad_h, pad_w, pad_op_index)
               ELSE st
        st2 == IF plan.fill_nan
               THEN FillPad(st1, self, pad_h, pad_w, pad_op_index, plan.ceil_pad)
               ELSE st1
    IN  IF plan.raised THEN [st |-> st, raised |-> TRUE]
        ELSE [st |-> st2, raised |-> FALSE]

\* the windowed op's output size along one dimension
PoolOut(s, k, t, p, ceil_mode) ==
    IF ceil_mode
    THEN LastStartsInside(CeiledOutputDim(s, k, t, p), s, t, p)
    ELSE (s + 2 * p - k) \div t + 1

PadInit ==
    /\ pc = "pad_entry"
    /\ \E h \in {5, 6}, w \in {5, 6}, k \in {2, 3}, t \in {1, 2},
          pad_h \in 0..MaxPad, pad_w \in 0..MaxPad, ceil_mode \in BOOLEAN,
          kind \in {"MaxPool2d", "AvgPool2d"}, dtype \in {"float32", "uint8", "int8"},
          pad_op_index \in {1, 2} :
          LET q == dtype # "float32"
              oh == PoolOut(h, k, t, pad_h, ceil_mode)
              ow == PoolOut(w, k, t, pad_w, ceil_mode)
          IN  /\ convs = <<NewConv(<<"x">>, dtype # "int8")>>
              /\ tensors = << Tensor("in", FALSE, dtype, q, <<1, 1, h, w>>, NoValue),
                              Tensor("in_nhwc", FALSE, dtype, q, <<1, h, w, 1>>, NoValue),
                              Tensor("out_nhwc", FALSE, dtype, q, <<1, oh, ow, 1>>, NoValue),
                              Tensor("x", FALSE, dtype, q, <<1, 1, oh, ow>>, NoValue) >>
              /\ ops = << Op(1, "Transpose", <<1>>, <<2>>, NoAttrs),
                          Op(2, kind, <<2>>, <<3>>,
                             [filterHeight |-> k, filterWidth |-> k,
                              strideH |-> t, strideW |-> t]),
                          Op(3, "Transpose", <<3>>, <<4>>, NoAttrs) >>
              /\ call = [op |-> "handle_padding", pad_h |-> pad_h, pad_w |-> pad_w,
                         pad_op_index |-> pad_op_index, ceil_mode |-> ceil_mode,
                         ntensors |-> 4]
    /\ ops0 = ops
    /\ graph_ops = <<>>
    /\ generated = {}
    /\ ret = NoRet
    /\ RescaleIdle

PadCall ==
    /\ pc = "pad_entry"
    /\ LET after == handle_padding(Here, 1, call.pad_h, call.pad_w, call.pad_op_index,
                                   call.ceil_mode)
       IN  /\ convs' = after.st.convs
           /\ tensors' = after.st.tensors
           /\ ops' = after.st.ops
           /\ generated' = after.st.generated
           /\ ret' = IF after.raised THEN Raised("AssertionError")
                     ELSE [kind |-> "returned"]
    /\ pc' = "pad_done"
    /\ UNCHANGED <<call, ops0, graph_ops>>
    /\ UNCHANGED rescaleVars

PadNext == PadCall

PadSpec == PadInit /\ [][PadNext]_vars

\* what the call was asked to do, read off its arguments and the list passed
PadReturned == pc = "pad_done" /\ ret.kind = "returned"
ZeroPadWanted == call.pad_h + call.pad_w > 0
CeilPadWanted ==
    /\ call.ceil_mode
    /\ UnderCovers(<<tensors[1].shape[3], tensors[1].shape[4]>>,
                   <<call.pad_h, call.pad_w>>,
                   <<ops0[2].attrs.filterHeight, ops0[2].attrs.filterWidth>>,
                   <<ops0[2].attrs.strideH, ops0[2].attrs.strideW>>)
\* position in ops (from 1) of the first inserted op, were one inserted
FirstInserted == call.pad_op_index + 1
Padv2Position == IF ZeroPadWanted THEN FirstInserted + 1 ELSE FirstInserted
InsertedCount == (IF ZeroPadWanted THEN 1 ELSE 0) + (IF CeilPadWanted THEN 1 ELSE 0)

\* C6: with ceil_mode on a max-pool whose padding under-covers the window,
\* the inserted Padv2 pads each spatial dimension by exactly the amount
\* get_pool_ceil_padding returns for it, and batch and channel by 0.
C6_PadsByExtra ==
    (PadReturned /\ CeilPadWanted) =>
        LET extra == get_pool_ceil_padding(
                         tensors[1].shape,
                         <<ops0[2].attrs.filterHeight, ops0[2].attrs.filterWidth>>,
                         <<ops0[2].attrs.strideH, ops0[2].attrs.strideW>>,
                         <<call.pad_h, call.pad_w>>)
            padv2 == ops[Padv2Position]
        IN  /\ padv2.kind = "Padv2"
            /\ tensors[padv2.inputs[2]].value =
                  ArrayValue(<<<<0, 0>>, <<0, extra[1]>>, <<0, extra[2]>>, <<0, 0>>>>)

\* the most negative value a dtype represents
DtypeMin(dtype) ==
    IF dtype = "float32" THEN FloatMin
    ELSE IF dtype = "uint8" THEN IntValue(0)
    ELSE IntValue(-128)

\* C7: the constant operand of the inserted Padv2 is the most negative value
\* of the padded tensor's dtype, for float32, quantized unsigned-8 and
\* quantized signed-8 tensors alike.
C7_FillIsDtypeMin ==
    (PadReturned /\ CeilPadWanted) =>
        LET padv2 == ops[Padv2Position]
        IN  tensors[padv2.inputs[3]].value = DtypeMin(tensors[padv2.inputs[1]].dtype)

\* C10: after handle_padding returns, ops is the original list with the new
\* pad ops inserted together right before the original ops[pad_op_index],
\* nothing else moved or removed: first the zero-pad op (iff pad_h+pad_w > 0),
\* reading the output of the op before the windowed op, then the Padv2 (iff
\* ceil padding is needed), reading the zero-pad's output or else that same
\* preceding output; the windowed op's input 0 is the last inserted op's
\* output; with neither needed the list and that input are unchanged.
C10_InsertedBeforeWindow ==
    PadReturned =>
        LET i == call.pad_op_index
            k == InsertedCount
            n == Len(ops0)
            before == ops0[i].outputs[1]
        IN  /\ Len(ops) = n + k
            /\ \A j \in 1..i : ops[j] = ops0[j]
            /\ \A j \in (i + 2)..n : ops[j + k] = ops0[j]
            /\ \A j \in (i + 1)..(i + k) : \A m \in 1..n : ops[j].id # ops0[m].id
            /\ ops[i + 1 + k].id = ops0[i + 1].id
            /\ k = 0 => ops = ops0
            /\ k > 0 => ops[i + 1 + k] =
                            [ops0[i + 1] EXCEPT !.inputs[1] = ops[i + k].outputs[1]]
            /\ ZeroPadWanted => /\ ops[i + 1].kind = "Pad"
                                /\ ops[i + 1].inputs[1] = before
                                /\ ops[i + 1].outputs[1] > call.ntensors
            /\ CeilPadWanted => /\ ops[Padv2Position].kind = "Padv2"
                                /\ ops[Padv2Position].inputs[1] =
                                      (IF ZeroPadWanted THEN ops[i + 1].outputs[1]
                                       ELSE before)
                                /\ ops[Padv2Position].outputs[1] > call.ntensors
                                /\ ops[Padv2Position].outputs[1] # ops[Padv2Position].inputs[1]

C10_Witness ==
    /\ PadReturned
    /\ ZeroPadWanted
    /\ CeilPadWanted
    /\ Len(ops) = 5
    /\ ops[2].kind = "Pad" /\ ops[3].kind = "Padv2" /\ ops[4].kind = "MaxPool2d"

(***************************************************************************)
(* passthrough (lines 232-240) with find_or_create_input (161-170) and     *)
(* to_tfl_tensors (143-159)                                                *)
(***************************************************************************)
\* lines 161-170: the tensor registered under the input's name, else a new
\* buffer tensor; .id is the tensor returned
find_or_create_input(st, self, idx, tensor_map) ==
    LET name == st.convs[self].input_names[idx + 1]
        hits == {t \in tensor_map : st.tensors[t].name = name}
    IN  IF hits # {}
        THEN [st |-> st, id |-> CHOOSE t \in hits : TRUE]
        ELSE [st |-> [st EXCEPT !.tensors =
                        Append(@, Tensor(name, TRUE, "float32", FALSE,
                                         st.convs[self].input_tensors[idx + 1], NoValue))],
              id |-> Len(st.tensors) + 1]

\* lines 143-159 as passthrough calls it (has_buffers and graph_converter
\* None): the assertion of line 149, then one new tensor per name; .ids are
\* the tensors returned
to_tfl_tensors(st, names, shapes) ==
    IF Len(names) # Len(shapes)
    THEN [st |-> st, ids |-> <<>>, raised |-> TRUE]
    ELSE [st |-> [st EXCEPT !.tensors =
                    @ \o [i \in 1..Len(names) |->
                            Tensor(names[i], FALSE, "float32", FALSE, shapes[i], NoValue)]],
          ids |-> [i \in 1..Len(names) |-> Len(st.tensors) + i],
          raised |-> FALSE]

\* lines 236-240: the body of the loop for index i (from 0)
PassBody(st, self, i, tensor_map) ==
    LET c == st.convs[self]
        shape == c.input_tensors[i + 1]
        found == find_or_create_input(st, self, i, tensor_map)
        st1 == create_attr_tensor(found.st, self, "int64", FALSE, <<Len(shape)>>,
                                  ArrayValue(shape))
        attr == Len(st1.tensors)
        outs == to_tfl_tensors(st1, c.output_names, c.output_tensors)
    IN  IF outs.raised
        THEN [st |-> outs.st, raised |-> TRUE]
        ELSE [st |-> [outs.st EXCEPT !.graph_ops =
                        Append(@, Op(NextOpId(st), "Reshape", <<found.id, attr>>,
                                     outs.ids, [newShape |-> shape]))],
              raised |-> FALSE]

PassCountInputs(c) == Len(c.input_tensors)
\* line 235: range(len(self.output_tensors))
PassCount(c) == Len(c.output_tensors)

RECURSIVE PassLoop(_, _, _, _)
PassLoop(st, self, i, tensor_map) ==
    IF i >= PassCount(st.convs[self]) THEN [st |-> st, raised |-> FALSE]
    ELSE LET step == PassBody(st, self, i, tensor_map)
         IN  IF step.raised THEN step
             ELSE PassLoop(step.st, self, i + 1, tensor_map)

\* lines 232-240
passthrough(st, self, tensor_map) ==
    IF ~(Len(st.convs[self].input_tensors) >= Len(st.convs[self].output_tensors))
    THEN [st |-> st, raised |-> TRUE]
    ELSE PassLoop(st, self, 0, tensor_map)

Shapes == {<<1, 4>>, <<2, 2>>}

\* lines 20-29 and, when ran, run's recording of the outputs (lines 138-141)
PassInit ==
    /\ pc = "pass_entry"
    /\ \E n_in \in 0..MaxArity, n_out \in 1..MaxArity, ran \in BOOLEAN, asym \in BOOLEAN :
       \E in_shapes \in [1..n_in -> Shapes], out_shapes \in [1..n_out -> Shapes],
          registered \in SUBSET (1..n_in) :
          /\ convs = <<[output_names |-> [i \in 1..n_out |-> "out" \o ToString(i)],
                        input_names |-> [i \in 1..n_in |-> "in" \o ToString(i)],
                        input_tensors |-> in_shapes,
                        output_tensors |-> IF ran THEN out_shapes ELSE <<>>,
                        attr_count |-> 0, transform_count |-> 0,
                        asymmetric |-> asym]>>
          /\ tensors = [i \in 1..n_in |->
                          Tensor("in" \o ToString(i), FALSE, "float32", FALSE,
                                 in_shapes[i], NoValue)]
          /\ call = [op |-> "passthrough", tensor_map |-> registered]
    /\ ops = <<>>
    /\ ops0 = <<>>
    /\ graph_ops = <<>>
    /\ generated = {}
    /\ ret = NoRet
    /\ RescaleIdle

PassCall ==
    /\ pc = "pass_entry"
    /\ LET after == passthrough(Here, 1, call.tensor_map)
       IN  /\ convs' = after.st.convs
           /\ tensors' = after.st.tensors
           /\ graph_ops' = after.st.graph_ops
           /\ generated' = after.st.generated
           /\ ret' = IF after.raised THEN Raised("AssertionError")
                     ELSE [kind |-> "returned"]
    /\ pc' = "pass_done"
    /\ UNCHANGED <<call, ops, ops0>>
    /\ UNCHANGED rescaleVars

PassNext == PassCall

PassSpec == PassInit /\ [][PassNext]_vars

\* the converter's outputs have the shapes of its inputs
SameShapes ==
    \A i \in 1..Min(Len(convs[1].input_tensors), Len(convs[1].output_tensors)) :
        convs[1].input_tensors[i] = convs[1].output_tensors[i]

\* C9 as stated: for a converter whose input shape equals its output shape,
\* whatever its number of inputs and outputs, one call of passthrough adds
\* exactly one Reshape op, whose target shape is the input's shape.  (Stated
\* here for converters whose outputs are recorded and no more than the inputs.)
C9_OneReshape ==
    (pc = "pass_done" /\ SameShapes
       /\ Len(convs[1].output_tensors) >= 1
       /\ Len(convs[1].input_tensors) >= Len(convs[1].output_tensors)) =>
        /\ ret.kind = "returned"
        /\ Len(graph_ops) = 1
        /\ graph_ops[1].kind = "Reshape"
        /\ graph_ops[1].attrs.newShape = convs[1].input_tensors[1]

\* C9 as amended: for a converter holding n output tensors and at least n
\* inputs, one call of passthrough adds exactly n Reshape ops (one when n = 1,
\* none when n = 0), the i-th with the i-th input's shape as target shape and
\* input i as its data input; with fewer inputs than outputs the call fails
\* its assertion and adds nothing.
C9_ReshapePerOutput ==
    pc = "pass_done" =>
        LET n_in == Len(convs[1].input_tensors)
            n_out == Len(convs[1].output_tensors)
        IN  IF n_in < n_out
            THEN ret.kind = "raised" /\ graph_ops = <<>>
            ELSE /\ ret.kind = "returned"
                 /\ Len(graph_ops) = n_out
                 /\ \A i \in 1..n_out :
                       /\ graph_ops[i].kind = "Reshape"
                       /\ graph_ops[i].attrs.newShape = convs[1].input_tensors[i]
                       /\ tensors[graph_ops[i].inputs[1]].name = convs[1].input_names[i]
                       /\ Len(graph_ops[i].outputs) = n_out

C9_Witness ==
    /\ pc = "pass_done"
    /\ SameShapes
    /\ Len(convs[1].input_tensors) = 2 /\ Len(convs[1].output_tensors) = 2
    /\ Len(graph_ops) = 2
    /\ graph_ops[2].attrs.newShape = convs[1].input_tensors[2]

(***************************************************************************)
(* run (lines 115-141) with fetch_annotated_args (lines 63-83)             *)
(*                                                                         *)
(* The operation func of line 116 is the environment: each of its calls    *)
(* returns the node's outputs or raises.  Input tensors are written as the *)
(* numbers 1, 2, ... (the i-th input of the node), so that none of them is *)
(* the value 0 that line 133 puts in place of the device argument.         *)
(***************************************************************************)
MaxSchemas == 2

\* line 133: kwargs['device'] = 0
DefaultDevice == 0

\* torch.__version__ as LooseVersion splits it
TorchVersions == {<<1, 7, 1>>, <<1, 8, 0>>, <<1, 13, 0>>, <<2, 0, 0>>}

\* LooseVersion.__ge__: the component lists compared in order
VersionGE(a, b) ==
    \/ a = b
    \/ \E i \in 1..Len(a) :
          /\ \A j \in 1..(i - 1) : a[j] = b[j]
          /\ a[i] > b[i]

\* line 119
PositionalAvailable(version) == VersionGE(version, <<1, 8, 0>>)

\* the schemas torch._C._jit_get_schemas_for_operator may return (line 71)
Schemas ==
    {[overload_name |-> "", arguments |-> <<"self">>],
     [overload_name |-> "", arguments |-> <<"self", "device">>],
     [overload_name |-> "names_dim", arguments |-> <<"self", "dim">>],
     [overload_name |-> "dtype", arguments |-> <<"size", "other">>]}

\* line 74: 'name' in schema.overload_name
NameIn(overload_name) == overload_name \in {"names_dim"}

\* dict(zip(ks, vs)) for distinct keys: the keys in order and the value of each
Dict(ks, vs) ==
    LET n == Min(Len(ks), Len(vs))
    IN  [keys |-> SubSeq(ks, 1, n),
         at |-> [k \in {ks[i] : i \in 1..n} |-> vs[CHOOSE i \in 1..n : ks[i] = k]]]

EmptyDict == Dict(<<>>, <<>>)

\* d[k] = v
SetItem(d, k, v) ==
    [keys |-> IF k \in DOMAIN d.at THEN d.keys ELSE Append(d.keys, k),
     at |-> [n \in DOMAIN d.at \cup {k} |-> IF n = k THEN v ELSE d.at[n]]]

Returned(value) == [kind |-> "returned", value |-> value]

\* lines 63-83; prim is k.startswith('prim::')
fetch_annotated_args(c, prim, schemas) ==
    IF Len(c.input_tensors) = 0 THEN Returned(EmptyDict)
    ELSE IF prim THEN Returned(EmptyDict)
    ELSE LET IsCandidate(schema) ==
                 /\ ~NameIn(schema.overload_name)
                 /\ Len(schema.arguments) = Len(c.input_tensors)
             candidates == SelectSeq(schemas, IsCandidate)
         IN  IF ~(Len(candidates) > 0) THEN Raised("AssertionError")
             ELSE Returned(Dict(candidates[1].arguments,
                                [i \in 1..Len(c.input_tensors) |-> i - 1]))

\* what one call of func does: "ok", or the exception it raises
EvalOutcomes == {"ok", "TypeError", "RuntimeError", "ValueError"}

\* line 123: except (TypeError, RuntimeError)
CaughtPositional(error) == error \in {"TypeError", "RuntimeError"}

\* line 131: except RuntimeError
CaughtNamed(error) == error = "RuntimeError"

HasDeviceAlways(kwargs) == TRUE
\* line 132: 'device' in kwargs
HasDevice(kwargs) == "device" \in DOMAIN kwargs.at

\* what func returns for a node with n outputs: the tensor, or a tuple of them
Outputs(n) == IF n = 1 THEN 11 ELSE [i \in 1..n |-> 10 + i]

\* lines 138-141
RecordOutputs(c, o) ==
    IF Len(c.output_names) = 1
    THEN [c EXCEPT !.output_tensors = Append(@, o)]
    ELSE [c EXCEPT !.output_tensors = @ \o o]

Attempt(form, args, outcome) == [form |-> form, args |-> args, outcome |-> outcome]

\* lines 20-29, or the converter after an earlier run; the node's kind, its
\* schemas and the torch version
RunInit ==
    /\ pc = "run_entry"
    /\ \E n_in \in 0..MaxArity, n_out \in 1..MaxArity, again \in BOOLEAN,
          version \in TorchVersions, prim \in BOOLEAN, n_s \in 0..MaxSchemas :
       \E schemas \in [1..n_s -> Schemas] :
          /\ convs = <<[output_names |-> [i \in 1..n_out |-> "out" \o ToString(i)],
                        input_names |-> [i \in 1..n_in |-> "in" \o ToString(i)],
                        input_tensors |-> [i \in 1..n_in |-> i],
                        output_tensors |-> IF again THEN <<10>> ELSE <<>>,
                        attr_count |-> 0, transform_count |-> 0,
                        asymmetric |-> TRUE]>>
          /\ call = [op |-> "run", version |-> version, prim |-> prim,
                     schemas |-> schemas,
                     prior |-> IF again THEN <<10>> ELSE <<>>,
                     legacy |-> TRUE, o |-> <<>>, kwargs |-> EmptyDict,
                     attempts |-> <<>>]
    /\ tensors = <<>>
    /\ ops = <<>>
    /\ ops0 = <<>>
    /\ graph_ops = <<>>
    /\ generated = {}
    /\ ret = NoRet
    /\ RescaleIdle

\* lines 119-124 when the version test holds
RunPositional ==
    /\ pc = "run_entry"
    /\ PositionalAvailable(call.version)
    /\ \E outcome \in EvalOutcomes :
          LET tried == Append(call.attempts,
                              Attempt("positional", convs[1].input_tensors, outcome))
          IN  IF outcome = "ok"
              THEN /\ call' = [call EXCEPT !.attempts = tried, !.legacy = FALSE,
                                           !.o = Outputs(Len(convs[1].output_names))]
                   /\ pc' = "run_record"
                   /\ ret' = ret
              ELSE IF CaughtPositional(outcome)
              THEN /\ call' = [call EXCEPT !.attempts = tried]
                   /\ pc' = "run_named"
                   /\ ret' = ret
              ELSE /\ call' = [call EXCEPT !.attempts = tried]
                   /\ pc' = "run_raised"
                   /\ ret' = Raised(outcome)
    /\ UNCHANGED rescaleVars
    /\ UNCHANGED convVars

\* line 119 when the version test fails: legacy stays True
RunSkipPositional ==
    /\ pc = "run_entry"
    /\ ~PositionalAvailable(call.version)
    /\ pc' = "run_named"
    /\ UNCHANGED <<call, ret>>
    /\ UNCHANGED rescaleVars
    /\ UNCHANGED convVars

\* lines 126-136 up to the retry: the binding and the call of the try block,
\* and the handler's choice
RunNamed ==
    /\ pc = "run_named"
    /\ call.legacy
    /\ LET args == fetch_annotated_args(convs[1], call.prim, call.schemas)
       IN  IF args.kind = "raised"
           THEN /\ call' = [call EXCEPT !.attempts =
                               Append(@, Attempt("named", EmptyDict, args.error))]
                /\ pc' = "run_raised"
                /\ ret' = args
           ELSE LET kwargs == Dict(args.value.keys, convs[1].input_tensors)
                IN  \E outcome \in EvalOutcomes :
                       LET tried == Append(call.attempts,
                                           Attempt("named", kwargs, outcome))
                       IN  IF outcome = "ok"
                           THEN /\ call' = [call EXCEPT !.attempts = tried,
                                               !.kwargs = kwargs,
                                               !.o = Outputs(Len(convs[1].output_names))]
                                /\ pc' = "run_record"
                                /\ ret' = ret
                           ELSE IF CaughtNamed(outcome) /\ HasDevice(kwargs)
                           THEN /\ call' = [call EXCEPT !.attempts = tried,
                                               !.kwargs = SetItem(kwargs, "device",
                                                                  DefaultDevice)]
                                /\ pc' = "run_retry"
                                /\ ret' = ret
                           ELSE /\ call' = [call EXCEPT !.attempts = tried,
                                               !.kwargs = kwargs]
                                /\ pc' = "run_raised"
                                /\ ret' = Raised(outcome)
    /\ UNCHANGED rescaleVars
    /\ UNCHANGED convVars

\* line 134
RunRetry ==
    /\ pc = "run_retry"
    /\ \E outcome \in EvalOutcomes :
          LET tried == Append(call.attempts, Attempt("retry", call.kwargs, outcome))
          IN  IF outcome = "ok"
              THEN /\ call' = [call EXCEPT !.attempts = tried,
                                  !.o = Outputs(Len(convs[1].output_names))]
                   /\ pc' = "run_record"
                   /\ ret' = ret
              ELSE /\ call' = [call EXCEPT !.attempts = tried]
                   /\ pc' = "run_raised"
                   /\ ret' = Raised(outcome)
    /\ UNCHANGED rescaleVars
    /\ UNCHANGED convVars

\* lines 138-141
RunRecord ==
    /\ pc = "run_record"
    /\ convs' = [convs EXCEPT ![1] = RecordOutputs(@, call.o)]
    /\ ret' = [kind |-> "returned"]
    /\ pc' = "run_done"
    /\ UNCHANGED <<call, tensors, ops, ops0, graph_ops, generated>>
    /\ UNCHANGED rescaleVars

RunNext ==
    \/ RunPositional
    \/ RunSkipPositional
    \/ RunNamed
    \/ RunRetry
    \/ RunRecord

RunSpec == RunInit /\ [][RunNext]_vars

\* the forms run has attempted so far, in order
Forms == [i \in 1..Len(call.attempts) |-> call.attempts[i].form]

\* C11: run attempts the forms in a fixed order and stops at the first
\* success: the positional call first; the name-bound form only if the
\* positional call failed or is unavailable; one retry of the name-bound call
\* with the device argument replaced by the default device only if the
\* name-bound call failed and a device argument is bound.  No form is
\* attempted twice; if the last attempt fails its error reaches the caller
\* and output_tensors is as before; on success the outputs are recorded once.
C11_FixedOrder ==
    LET a == call.attempts
        n == Len(a)
    IN  /\ Forms \in {<<>>, <<"positional">>, <<"named">>,
                      <<"positional", "named">>, <<"named", "retry">>,
                      <<"positional", "named", "retry">>}
        /\ \A i \in 1..n :
              /\ i < n => a[i].outcome # "ok"
              /\ a[i].form = "positional" =>
                    /\ PositionalAvailable(call.version)
                    /\ a[i].args = convs[1].input_tensors
              /\ a[i].form = "named" =>
                    \/ i = 1 /\ ~PositionalAvailable(call.version)
                    \/ i > 1 /\ a[i - 1].outcome # "ok"
              /\ a[i].form = "retry" =>
                    /\ a[i - 1].outcome # "ok"
                    /\ "device" \in DOMAIN a[i - 1].args.at
                    /\ a[i].args = SetItem(a[i - 1].args, "device", DefaultDevice)
        /\ n > 0 /\ PositionalAvailable(call.version) => a[1].form = "positional"
        /\ pc = "run_raised" =>
              /\ n > 0
              /\ a[n].outcome # "ok"
              /\ ret = Raised(a[n].outcome)
        /\ pc = "run_done" =>
              /\ n > 0
              /\ a[n].outcome = "ok"
              /\ ret.kind = "returned"
              /\ Len(convs[1].output_tensors) =
                    Len(call.prior) + Len(convs[1].output_names)
              /\ \A i \in 1..Len(call.prior) :
                    convs[1].output_tensors[i] = call.prior[i]
              /\ \A i \in 1..Len(convs[1].output_names) :
                    convs[1].output_tensors[Len(call.prior) + i] = 10 + i
        /\ pc # "run_done" => convs[1].output_tensors = call.prior

C11_Witness ==
    /\ pc = "run_done"
    /\ Forms = <<"positional", "named", "retry">>
    /\ call.attempts[3].args.at["device"] = DefaultDevice
    /\ call.attempts[2].args.at["device"] # DefaultDevice
    /\ Len(convs[1].output_tensors) = 3

====
